---------------------------- MODULE Spec2Model ----------------------------
(***************************************************************************)
(* Energy Command Center: the deterministic month generator               *)
(* (src/lib/energyData.ts, here src/unnamed/part_000) and the calendar    *)
(* view state that consumes it (src/components/EnergyCalendar.tsx, here   *)
(* src/unnamed/part_001).                                                 *)
(*                                                                         *)
(* Numbers.  The program computes in IEEE doubles.  The model computes in *)
(* fixed point: a quantity x is held as the integer floor(x * Scale).     *)
(* Fields stored through toFixed(1) are held in tenths, fields stored     *)
(* through toFixed(2) in hundredths.  The generator state is held exactly. *)
(* Comparisons of a draw with a threshold (> 0.8, > 0.3, > 0.65, > 0.35)  *)
(* and Math.floor(rng() * k) are decided exactly on the generator state;  *)
(* the continuous quantities agree with the doubles up to 1/Scale, so a   *)
(* stored field may differ from the program's by one unit in the last     *)
(* place when the unrounded value lies within 1/Scale of a rounding       *)
(* boundary, and a quotient that is an exact decimal tie is rounded away  *)
(* from zero where the nearest double may lie on either side of the tie.  *)
(*                                                                         *)
(* Objects.  A snapshot is a heap object: MONTH_CACHE maps a month key to *)
(* a reference (an index into heap), so that "the same object" and "the   *)
(* object was modified" are different statements.                         *)
(***************************************************************************)
EXTENDS Integers, Sequences, FiniteSets, TLC

---------------------------------------------------------------------------
(* Fixed-point arithmetic                                                  *)

Scale == 10000

\* a * b / Scale to the nearest unit, without leaving 32 bits (0 <= b < 2^17)
MulFix(a, b) == (a \div Scale) * b + ((a % Scale) * b + Scale \div 2) \div Scale

Max(a, b) == IF a >= b THEN a ELSE b

Abs(a) == IF a >= 0 THEN a ELSE -a

\* x.toFixed(1) then parseFloat: nearest tenth, halves away from zero; result in tenths
ToFixed1(x) == IF x >= 0 THEN (x + 500) \div 1000 ELSE -((-x + 500) \div 1000)

\* x.toFixed(2) then parseFloat: nearest hundredth; result in hundredths
ToFixed2(x) == IF x >= 0 THEN (x + 50) \div 100 ELSE -((-x + 50) \div 100)

\* a stored tenths / hundredths field read back as a number
FromTenths(t) == t * 1000

FromHundredths(h) == h * 100

---------------------------------------------------------------------------
(* Date: the runtime's calendar arithmetic, local time.  A Date is         *)
(* [y, m, d] with m zero-based.                                            *)

IsLeap(y) == (y % 4 = 0 /\ y % 100 # 0) \/ y % 400 = 0

DaysIn(y, m) ==
    IF m = 1 THEN (IF IsLeap(y) THEN 29 ELSE 28)
    ELSE IF m \in {3, 5, 8, 10} THEN 30 ELSE 31

\* new Date(y, m, d) for any integer m and 0 <= d <= 31: the month index is
\* carried into the year, then the day is carried into the neighbouring month
MakeDate(y, m, d) ==
    LET yy == y + (m \div 12)
        mm == m % 12
    IN  IF d = 0
        THEN LET py == IF mm = 0 THEN yy - 1 ELSE yy
                 pm == IF mm = 0 THEN 11 ELSE mm - 1
             IN  [y |-> py, m |-> pm, d |-> DaysIn(py, pm)]
        ELSE IF d > DaysIn(yy, mm)
        THEN [y |-> IF mm = 11 THEN yy + 1 ELSE yy,
              m |-> IF mm = 11 THEN 0 ELSE mm + 1,
              d |-> d - DaysIn(yy, mm)]
        ELSE [y |-> yy, m |-> mm, d |-> d]

\* date.setMonth(k): same year and day-of-month, month index k, then normalised
SetMonth(date, k) == MakeDate(date.y, k, date.d)

\* date.setDate(k)
SetDate(date, k) == MakeDate(date.y, date.m, k)

---------------------------------------------------------------------------
(* Time zone of the host: local time = UTC + tz hours (no daylight saving) *)

TzOffsets == {-5, 2}

\* toISOString of the local midnight of `date`: the UTC calendar date and hour
ToISOString(date, zone) ==
    IF zone > 0
    THEN LET p == MakeDate(date.y, date.m, date.d - 1)
         IN  [y |-> p.y, m |-> p.m, d |-> p.d, h |-> 24 - zone]
    ELSE [y |-> date.y, m |-> date.m, d |-> date.d, h |-> -zone]

\* new Date(iso): the local calendar date of that instant
ParseISO(iso, zone) ==
    IF iso.h + zone >= 24 THEN MakeDate(iso.y, iso.m, iso.d + 1)
    ELSE [y |-> iso.y, m |-> iso.m, d |-> iso.d]

\* new Date(iso).getTime(): hours on a monotone time line
GetTime(iso) == (((iso.y * 12 + iso.m) * 31) + iso.d) * 24 + iso.h

---------------------------------------------------------------------------
(* createRng: the seeded sequence                                          *)

Modulus == 2147483647

Multiplier == 16807

\* a % b of the program's language: the sign follows the dividend
JsRem(a, b) == IF a >= 0 THEN a % b ELSE -((-a) % b)

\* createRng(seed): the state before the first draw
createRng(seed) ==
    LET state == JsRem(seed, Modulus)
    IN  IF state <= 0 THEN state + 2147483646 ELSE state

\* (state * 16807) % 2147483647, evaluated without leaving 32 bits
\* (2147483647 = 16807 * 127773 + 2836; the product is exact in a double)
LcgStep(state) ==
    LET q == Modulus \div Multiplier
        r == Modulus % Multiplier
        t == Multiplier * (state % q) - r * (state \div q)
    IN  IF t < 0 THEN t + Modulus ELSE t

\* the value returned with the generator in `state`: (state - 1) / 2147483646,
\* as floor(value * Scale), exactly
Frac(state) ==
    LET n  == state - 1
        q0 == n \div 214749
        q1 == q0 + 1
    IN  IF n >= q1 * 214748 + (q1 * 3646 + 9999) \div 10000 THEN q1 ELSE q0

\* value > pct / 100, exactly
Exceeds(state, pct) == state - 1 > pct * 21474836 + (pct * 46) \div 100

\* Math.floor(value * k), exactly, for 1 <= k <= 31
FloorMul(state, k) ==
    LET a == 2147483646 \div k
        b == 2147483646 % k
    IN  Cardinality({i \in 1..(k - 1) : state - 1 >= i * a + (i * b + k - 1) \div k})

---------------------------------------------------------------------------
(* Math.sin / Math.cos at (day / daysInMonth) * Math.PI, times Scale       *)

SinTable ==
    [n \in 28..31 |->
       CASE n = 28 -> <<1120, 2225, 3303, 4339, 5320, 6235, 7071, 7818, 8467, 9010, 9439, 9749, 9937, 10000, 9937, 9749, 9439, 9010, 8467, 7818, 7071, 6235, 5320, 4339, 3303, 2225, 1120, 0>>
         [] n = 29 -> <<1081, 2150, 3193, 4199, 5156, 6052, 6877, 7622, 8277, 8835, 9290, 9635, 9868, 9985, 9985, 9868, 9635, 9290, 8835, 8277, 7622, 6877, 6052, 5156, 4199, 3193, 2150, 1081, 0>>
         [] n = 30 -> <<1045, 2079, 3090, 4067, 5000, 5878, 6691, 7431, 8090, 8660, 9135, 9511, 9781, 9945, 10000, 9945, 9781, 9511, 9135, 8660, 8090, 7431, 6691, 5878, 5000, 4067, 3090, 2079, 1045, 0>>
         [] n = 31 -> <<1012, 2013, 2994, 3944, 4853, 5713, 6514, 7248, 7908, 8486, 8978, 9378, 9681, 9885, 9987, 9987, 9885, 9681, 9378, 8978, 8486, 7908, 7248, 6514, 5713, 4853, 3944, 2994, 2013, 1012, 0>>]

CosTable ==
    [n \in 28..31 |->
       CASE n = 28 -> <<9937, 9749, 9439, 9010, 8467, 7818, 7071, 6235, 5320, 4339, 3303, 2225, 1120, 0, -1120, -2225, -3303, -4339, -5320, -6235, -7071, -7818, -8467, -9010, -9439, -9749, -9937, -10000>>
         [] n = 29 -> <<9941, 9766, 9477, 9076, 8569, 7961, 7260, 6474, 5612, 4684, 3701, 2675, 1618, 541, -541, -1618, -2675, -3701, -4684, -5612, -6474, -7260, -7961, -8569, -9076, -9477, -9766, -9941, -10000>>
         [] n = 30 -> <<9945, 9781, 9511, 9135, 8660, 8090, 7431, 6691, 5878, 5000, 4067, 3090, 2079, 1045, 0, -1045, -2079, -3090, -4067, -5000, -5878, -6691, -7431, -8090, -8660, -9135, -9511, -9781, -9945, -10000>>
         [] n = 31 -> <<9949, 9795, 9541, 9190, 8743, 8208, 7588, 6890, 6121, 5290, 4404, 3473, 2507, 1514, 506, -506, -1514, -2507, -3473, -4404, -5290, -6121, -6890, -7588, -8208, -8743, -9190, -9541, -9795, -9949, -10000>>]

Sin(day, daysInMonth) == SinTable[daysInMonth][day]

Cos(day, daysInMonth) == CosTable[daysInMonth][day]

---------------------------------------------------------------------------
(* The month generator.  Every function that draws from the sequence takes *)
(* the generator state and returns it advanced, next to its result.        *)

\* buildMonthKey: `${year}-${month + 1, two digits}`, as the pair it spells
buildMonthKey(year, month) == <<year, month + 1>>

\* a time of day "HH:MM", as the pair it spells
Time(h, m) == <<h, m>>

\* the presets of deriveTasks, by day; impact values in tenths
Presets ==
    << [day |-> 2, tasks |-> <<
          [title |-> "Optimize thermostat schedule", time |-> Time(7, 30),
           description |-> "Adjust weekday morning setpoints to reduce HVAC runtime.",
           impact |-> [type |-> "reduction", value |-> 24]] >>],
       [day |-> 5, tasks |-> <<
          [title |-> "Schedule EV charging", time |-> Time(23, 0),
           description |-> "Shift EV charging to off-peak window for demand response incentive.",
           impact |-> [type |-> "shift", value |-> 61]] >>],
       [day |-> 12, tasks |-> <<
          [title |-> "Panel cleaning", time |-> Time(9, 0),
           description |-> "Rinse rooftop panels to improve solar harvest.",
           impact |-> [type |-> "generation", value |-> 38]] >>],
       [day |-> 18, tasks |-> <<
          [title |-> "Load tuning workshop", time |-> Time(15, 30),
           description |-> "Review automation scripts for HVAC and lighting.",
           impact |-> [type |-> "reduction", value |-> 19]],
          [title |-> "Battery discharge planning", time |-> Time(19, 0),
           description |-> "Allocate battery discharge for peak window.",
           impact |-> [type |-> "shift", value |-> 46]] >>],
       [day |-> 24, tasks |-> <<
          [title |-> "Demand response rehearsal", time |-> Time(16, 0),
           description |-> "Test automated load curtailment scenario.",
           impact |-> [type |-> "reduction", value |-> 28]] >>] >>

\* `${day}-preset-${index}` (index zero-based), `${day}-adhoc`, and a random UUID
PresetIdOneBased(day, index) == <<"preset", day, index + 1>>

PresetId(day, index) == <<"preset", day, index>>

AdhocId(day) == <<"adhoc", day, 0>>

UuidId(n) == <<"uuid", n, 0>>

\* presets.find(config => config.day === day): the index of the first match, 0 if none
FindPreset(day) ==
    LET hits == {i \in 1..Len(Presets) : Presets[i].day = day}
    IN  IF hits = {} THEN 0 ELSE CHOOSE i \in hits : \A j \in hits : i <= j

\* a plausible slip: the ad-hoc roll drawn before the presets are looked up
deriveTasksRollFirst(day, rng) ==
    LET p == FindPreset(day)
    IN  IF p # 0
        THEN [tasks |-> [i \in 1..Len(Presets[p].tasks) |->
                           [id          |-> PresetId(day, i - 1),
                            title       |-> Presets[p].tasks[i].title,
                            time        |-> Presets[p].tasks[i].time,
                            description |-> Presets[p].tasks[i].description,
                            impact      |-> Presets[p].tasks[i].impact,
                            status      |-> "planned"]],
              rng |-> LcgStep(rng)]
        ELSE LET s1 == LcgStep(rng)
                 s2 == LcgStep(s1)
             IN  IF Exceeds(s1, 80)
                 THEN [tasks |-> << [id          |-> AdhocId(day),
                                     title       |-> "Inspect standby loads",
                                     time        |-> Time(21, 30),
                                     description |-> "Verify vampire loads and smart plug schedules.",
                                     impact      |-> [type |-> "reduction",
                                                      value |-> ToFixed1(12000 + Frac(s2))],
                                     status      |-> "planned"] >>,
                       rng |-> s2]
                 ELSE [tasks |-> << >>, rng |-> s1]

deriveTasks(day, rng) ==
    LET p == FindPreset(day)
    IN  IF p # 0
        THEN [tasks |-> [i \in 1..Len(Presets[p].tasks) |->
                           [id          |-> PresetId(day, i - 1),
                            title       |-> Presets[p].tasks[i].title,
                            time        |-> Presets[p].tasks[i].time,
                            description |-> Presets[p].tasks[i].description,
                            impact      |-> Presets[p].tasks[i].impact,
                            status      |-> "planned"]],
              rng |-> rng]
        ELSE LET s1 == LcgStep(rng)
                 s2 == LcgStep(s1)
             IN  IF Exceeds(s1, 80)
                 THEN [tasks |-> << [id          |-> AdhocId(day),
                                     title       |-> "Inspect standby loads",
                                     time        |-> Time(21, 30),
                                     description |-> "Verify vampire loads and smart plug schedules.",
                                     impact      |-> [type |-> "reduction",
                                                      value |-> ToFixed1(12000 + Frac(s2))],
                                     status      |-> "planned"] >>,
                       rng |-> s2]
                 ELSE [tasks |-> << >>, rng |-> s1]

\* (a - b) / b in fixed point, a and b in tenths
Ratio(a, b) ==
    IF a >= b THEN ((a - b) * Scale) \div b ELSE -(((b - a) * Scale) \div b)

\* a plausible slip: the operands of && exchanged, rng() > 0.3 evaluated first
generateInsightsDrawFirst(day, rng) ==
    LET hvac == [label |-> "HVAC runtime",
                 change |-> ToFixed2(Ratio(day.usageKwh, day.baselineKwh)),
                 description |->
                    IF day.usageKwh > day.baselineKwh
                    THEN "Usage rose above baseline due to higher cooling load."
                    ELSE "Usage stayed below baseline thanks to optimized thermostat scheduling."]
        drawn == day.solarGenerationKwh > 120
        s1    == LcgStep(rng)
        solar == IF drawn /\ Exceeds(s1, 30)
                 THEN << [label |-> "Solar harvest",
                          change |-> ToFixed2(Ratio(day.solarGenerationKwh, 100)),
                          description |-> "Higher solar yield captured during midday peak generation."] >>
                 ELSE << >>
        peak  == IF day.peakUsageKwh > 140
                 THEN << [label |-> "Peak window",
                          change |-> ToFixed2(Ratio(day.peakUsageKwh, 120)),
                          description |-> "Peak window loads climbed. Consider shifting dishwasher or laundry."] >>
                 ELSE << >>
    IN  [insights |-> <<hvac>> \o solar \o peak, rng |-> s1]

\* generateInsights reads the stored (rounded) fields of the day
generateInsights(day, rng) ==
    LET hvac == [label |-> "HVAC runtime",
                 change |-> ToFixed2(Ratio(day.usageKwh, day.baselineKwh)),
                 description |->
                    IF day.usageKwh > day.baselineKwh
                    THEN "Usage rose above baseline due to higher cooling load."
                    ELSE "Usage stayed below baseline thanks to optimized thermostat scheduling."]
        drawn == day.solarGenerationKwh > 120
        s1    == IF drawn THEN LcgStep(rng) ELSE rng
        solar == IF drawn /\ Exceeds(s1, 30)
                 THEN << [label |-> "Solar harvest",
                          change |-> ToFixed2(Ratio(day.solarGenerationKwh, 100)),
                          description |-> "Higher solar yield captured during midday peak generation."] >>
                 ELSE << >>
        peak  == IF day.peakUsageKwh > 140
                 THEN << [label |-> "Peak window",
                          change |-> ToFixed2(Ratio(day.peakUsageKwh, 120)),
                          description |-> "Peak window loads climbed. Consider shifting dishwasher or laundry."] >>
                 ELSE << >>
    IN  [insights |-> <<hvac>> \o solar \o peak, rng |-> s1]

\* a plausible slip: day 0 of the month itself is the last day of the month before
DaysInMonthOfPrevious(year, month) == MakeDate(year, month, 0).d

\* new Date(year, month + 1, 0).getDate()
DaysInMonth(year, month) == MakeDate(year, month + 1, 0).d

\* events.sort((a, b) => time(a.date) - time(b.date)): stable, ascending
RECURSIVE InsertByDate(_, _)
InsertByDate(sorted, e) ==
    IF sorted = << >> THEN <<e>>
    ELSE IF GetTime(sorted[Len(sorted)].date) <= GetTime(e.date)
         THEN Append(sorted, e)
         ELSE Append(InsertByDate(SubSeq(sorted, 1, Len(sorted) - 1), e), sorted[Len(sorted)])

RECURSIVE SortByDate(_)
SortByDate(events) ==
    IF events = << >> THEN << >>
    ELSE InsertByDate(SortByDate(SubSeq(events, 1, Len(events) - 1)), events[Len(events)])

\* a plausible slip: both priority draws taken before they are compared
DemandEventBothDraws(year, month, daysInMonth, zone, index, rng) ==
    LET s1 == LcgStep(rng)
        day == 5 + FloorMul(s1, daysInMonth - 10)
        s2 == LcgStep(s1)
        s3 == LcgStep(s2)
        priority == IF Exceeds(s2, 65) THEN "high"
                    ELSE IF Exceeds(s3, 35) THEN "medium" ELSE "low"
        s4 == LcgStep(s3)
        windowStartHour == 15 + FloorMul(s4, 3)
        windowEndHour == windowStartHour + 2
    IN  [event |-> [id |-> <<year, month, index>>,
                    date |-> ToISOString(MakeDate(year, month, day), zone),
                    window |-> <<windowStartHour, windowEndHour>>,
                    priority |-> priority,
                    incentive |-> IF priority = "high" THEN "$40 credit"
                                  ELSE IF priority = "medium" THEN "$25 credit"
                                  ELSE "$15 credit",
                    recommendation |->
                        IF priority = "high"
                        THEN "Pre-cool the building and discharge battery during the event window."
                        ELSE "Shift flexible loads and monitor HVAC staging during the event window."],
         rng |-> s4]

\* one pass of the loop of createDemandEvents
DemandEvent(year, month, daysInMonth, zone, index, rng) ==
    LET s1 == LcgStep(rng)
        day == 5 + FloorMul(s1, daysInMonth - 10)
        s2 == LcgStep(s1)
        s3 == IF Exceeds(s2, 65) THEN s2 ELSE LcgStep(s2)
        priority == IF Exceeds(s2, 65) THEN "high"
                    ELSE IF Exceeds(s3, 35) THEN "medium" ELSE "low"
        s4 == LcgStep(s3)
        windowStartHour == 15 + FloorMul(s4, 3)
        windowEndHour == windowStartHour + 2
    IN  [event |-> [id |-> <<year, month, index>>,
                    date |-> ToISOString(MakeDate(year, month, day), zone),
                    window |-> <<windowStartHour, windowEndHour>>,
                    priority |-> priority,
                    incentive |-> IF priority = "high" THEN "$40 credit"
                                  ELSE IF priority = "medium" THEN "$25 credit"
                                  ELSE "$15 credit",
                    recommendation |->
                        IF priority = "high"
                        THEN "Pre-cool the building and discharge battery during the event window."
                        ELSE "Shift flexible loads and monitor HVAC staging during the event window."],
         rng |-> s4]

RECURSIVE EventLoop(_, _, _, _, _, _, _, _)
EventLoop(year, month, daysInMonth, zone, eventCount, index, events, rng) ==
    IF index < eventCount
    THEN LET r == DemandEvent(year, month, daysInMonth, zone, index, rng)
         IN  EventLoop(year, month, daysInMonth, zone, eventCount, index + 1,
                       Append(events, r.event), r.rng)
    ELSE [events |-> events, rng |-> rng]

\* the events in the order they were drawn (before the sort)
DrawnEvents(year, month, zone, rng) ==
    LET daysInMonth == DaysInMonth(year, month)
        s0 == LcgStep(rng)
        eventCount == 2 + FloorMul(s0, 2)
    IN  EventLoop(year, month, daysInMonth, zone, eventCount, 0, << >>, s0)

\* a plausible slip: the events returned in the order drawn
createDemandEventsUnsorted(year, month, zone, rng) == DrawnEvents(year, month, zone, rng)

createDemandEvents(year, month, zone, rng) ==
    LET r == DrawnEvents(year, month, zone, rng)
    IN  [events |-> SortByDate(r.events), rng |-> r.rng]

\* a plausible slip: the operands exchanged
OffPeakExchanged(usage, peakUsage) == peakUsage - usage

\* const offPeak = usage - peakUsage
OffPeakOf(usage, peakUsage) == usage - peakUsage

\* one pass of the day loop of buildMonth: the day's record and the advanced state
EnergyDayOf(year, month, daysInMonth, zone, day, rng) ==
    LET s1 == LcgStep(rng)
        seasonalModifier == 9000 + MulFix(Frac(s1), 2000)
        baseline == 280000 + MulFix(Sin(day, daysInMonth), 50000)
        s2 == LcgStep(s1)
        usage == MulFix(baseline, seasonalModifier) + MulFix(Frac(s2), 40000) - 15000
        s3 == LcgStep(s2)
        solar == 110000 + MulFix(Cos(day, daysInMonth), 40000) + MulFix(Frac(s3), 18000)
        s4 == LcgStep(s3)
        peakShare == 4200 + MulFix(Frac(s4), 800)
        peakUsage == MulFix(usage, peakShare)
        offPeak == OffPeakOf(usage, peakUsage)
        cost == MulFix(usage, 1800) + MulFix(peakUsage, 700)
        carbon == MulFix(usage - MulFix(solar, 5500), 4500)
        t == deriveTasks(day, s4)
        energyDay == [date |-> ToISOString(MakeDate(year, month, day), zone),
                      usageKwh |-> ToFixed1(usage),
                      solarGenerationKwh |-> ToFixed1(Max(solar, 25000)),
                      peakUsageKwh |-> ToFixed1(peakUsage),
                      offPeakUsageKwh |-> ToFixed1(Max(offPeak, 0)),
                      carbonKg |-> ToFixed1(Max(carbon, 35000)),
                      costUsd |-> ToFixed2(cost),
                      baselineKwh |-> ToFixed1(baseline),
                      insights |-> << >>,
                      tasks |-> t.tasks]
        g == generateInsights(energyDay, t.rng)
    IN  [day |-> [energyDay EXCEPT !.insights = g.insights],
         raw |-> [usage |-> usage, solar |-> Max(solar, 25000), carbon |-> Max(carbon, 35000),
                  cost |-> cost, baseline |-> baseline],
         rng |-> g.rng]

\* a plausible slip: the unrounded values of the pass added, not the stored fields
AddToTotalsUnrounded(totals, energyDay, raw) ==
    [usage    |-> totals.usage + raw.usage,
     solar    |-> totals.solar + raw.solar,
     carbon   |-> totals.carbon + raw.carbon,
     cost     |-> totals.cost + raw.cost,
     baseline |-> totals.baseline + raw.baseline]

\* what one pass adds to the running totals: the stored fields read back
\* (raw: the unrounded values of the pass, in scope and not used)
AddToTotals(totals, energyDay, raw) ==
    [usage    |-> totals.usage + FromTenths(energyDay.usageKwh),
     solar    |-> totals.solar + FromTenths(energyDay.solarGenerationKwh),
     carbon   |-> totals.carbon + FromTenths(energyDay.carbonKg),
     cost     |-> totals.cost + FromHundredths(energyDay.costUsd),
     baseline |-> totals.baseline + FromTenths(energyDay.baselineKwh)]

\* the end of a pass: days.push(energyDay) and the totals accumulated
EndOfPass(loop, pass) ==
    [days |-> Append(loop.days, pass.day),
     totals |-> AddToTotals(loop.totals, pass.day, pass.raw),
     rng |-> pass.rng]

\* the day loop of buildMonth; loop = [days, totals, rng] after dayIndex passes
RECURSIVE DayLoop(_, _, _, _, _, _)
DayLoop(year, month, daysInMonth, zone, dayIndex, loop) ==
    IF dayIndex < daysInMonth
    THEN DayLoop(year, month, daysInMonth, zone, dayIndex + 1,
                 EndOfPass(loop, EnergyDayOf(year, month, daysInMonth, zone,
                                             dayIndex + 1, loop.rng)))
    ELSE loop

RECURSIVE SumUsage(_)
SumUsage(slice) ==
    IF slice = << >> THEN 0
    ELSE SumUsage(SubSeq(slice, 1, Len(slice) - 1)) + FromTenths(slice[Len(slice)].usageKwh)

\* a plausible slip: every chunk divided by 7
SliceAverageOfSeven(slice) == SumUsage(slice) \div 7

\* slice.reduce((sum, d) => sum + d.usageKwh, 0) / slice.length
SliceAverage(slice) == SumUsage(slice) \div Len(slice)

\* the weekly-average loop of buildMonth
RECURSIVE WeekLoop(_, _, _)
WeekLoop(days, start, weeklyAverages) ==
    IF start < Len(days)
    THEN LET end == IF start + 7 < Len(days) THEN start + 7 ELSE Len(days)
             slice == SubSeq(days, start + 1, end)
             avg == SliceAverage(slice)
         IN  WeekLoop(days, start + 7, Append(weeklyAverages, ToFixed1(avg)))
    ELSE weeklyAverages

MonthNames ==
    <<"January", "February", "March", "April", "May", "June", "July",
      "August", "September", "October", "November", "December">>

\* formatMonthLabel: "<month name> <year>", as the pair it spells
formatMonthLabel(year, month) == <<MonthNames[month + 1], year>>

Recommendations ==
    <<"Shift flexible loads (EV, laundry) fully into off-peak windows.",
      "Pre-cool the facility before peak alert days to ride through curtailments.",
      "Leverage battery discharge to cap evening peaks above 15 kWh.",
      "Audit standby baseload and eliminate devices drawing >8 W overnight.">>

\* the seed of buildMonth
MonthSeed(year, month) == year * 97 + month * 31 + 2024

\* the totals object of the snapshot, from the running totals
TotalsOf(t) ==
    [usageKwh |-> ToFixed1(t.usage),
     solarGenerationKwh |-> ToFixed1(t.solar),
     netGridKwh |-> ToFixed1(t.usage - t.solar),
     carbonKg |-> ToFixed1(t.carbon),
     baselineKwh |-> ToFixed1(t.baseline),
     costUsd |-> ToFixed2(t.cost),
     targetKwh |-> ToFixed1(MulFix(t.baseline, 9500))]

\* the snapshot object of buildMonth, from what the day loop left
SnapshotAfter(year, month, zone, loop) ==
    [monthStart |-> ToISOString(MakeDate(year, month, 1), zone),
     label |-> formatMonthLabel(year, month),
     days |-> loop.days,
     totals |-> TotalsOf(loop.totals),
     demandEvents |-> createDemandEvents(year, month, zone, loop.rng).events,
     recommendations |-> Recommendations,
     weeklyAverages |-> WeekLoop(loop.days, 0, << >>)]

\* buildMonth on a cache miss: the snapshot it constructs
NewSnapshot(year, month, zone) ==
    SnapshotAfter(year, month, zone,
                  DayLoop(year, month, DaysInMonth(year, month), zone, 0,
                          [days |-> << >>,
                           totals |-> [usage |-> 0, solar |-> 0, carbon |-> 0, cost |-> 0,
                                       baseline |-> 0],
                           rng |-> createRng(MonthSeed(year, month))]))

Years == {2023, 2024}

\* NewSnapshot reads nothing but its arguments: the snapshot of each month of
\* Years is evaluated once and looked up afterwards
SnapshotTable ==
    {<<zone, year, month, NewSnapshot(year, month, zone)>> :
        zone \in TzOffsets, year \in Years, month \in 0..11}

SnapshotOf(year, month, zone) ==
    (CHOOSE e \in SnapshotTable : e[1] = zone /\ e[2] = year /\ e[3] = month)[4]

---------------------------------------------------------------------------
(* State                                                                   *)

VARIABLES
    tz,            \* the host's time zone offset
    MONTH_CACHE,   \* the module-level Map: month key -> reference to a snapshot
    heap,          \* the snapshot objects of this process, by reference (1..Len)
    lastCall,      \* the last call of getMonthSnapshot: its date, key and returned reference
    firstRef,      \* history: month key -> the reference its first call returned
    built,         \* history: month key -> the content first built for it, over all processes
    lastAdjacent,  \* the last call of getAdjacentMonth: its arguments and result
    restarts,      \* how many times the process was started afresh
    now,           \* the wall-clock date (local) that new Date() returns
    activeMonth,   \* EnergyCalendar state: a Date
    snapshot,      \* EnergyCalendar state: a reference to a snapshot (0 before mount)
    selectedDay,   \* EnergyCalendar state: a reference to a day object of a snapshot
    customTasks,   \* EnergyCalendar state: day date (ISO) -> the tasks the user added
    taskStatus,    \* EnergyCalendar state: task id -> status override
    formState,     \* EnergyCalendar state: the fields of the task form
    pending,       \* the effects waiting to run, in order ("unmounted" before mount)
    uuids,         \* how many ids crypto.randomUUID() has handed out
    clicks,        \* how many user events were handled
    lastEvent,     \* history: the last user event, with the snapshot and selection it found
    rngSeed,       \* a generator made by createRng on its own: the seed it was given
    rngState,      \* its internal state
    rngDraws,      \* how many steps were taken with it
    applied        \* history: the last function that drew from it, its input and its result

genVars == <<MONTH_CACHE, heap, lastCall, firstRef, built>>

viewVars == <<activeMonth, snapshot, selectedDay, customTasks, taskStatus, formState,
              pending, uuids, clicks, lastEvent>>

rngVars == <<rngSeed, rngState, rngDraws, applied>>

vars == <<tz, now, restarts, lastAdjacent, genVars, viewVars, rngVars>>

NoCall == [date |-> [y |-> 0, m |-> 0, d |-> 0], key |-> <<0, 0>>, ref |-> 0]

NoAdjacent == [date |-> [y |-> 0, m |-> 0, d |-> 0], offset |-> 0,
               result |-> [y |-> 0, m |-> 0, d |-> 0]]

NoApplied == [fn |-> "none", before |-> 0, after |-> 0]

NoEvent == [kind |-> "none", arg |-> 0, snapshot |-> 0, selectedDay |-> [ref |-> 0, idx |-> 0]]

\* a function with one more entry
Put(f, k, v) == [x \in DOMAIN f \cup {k} |-> IF x = k THEN v ELSE f[x]]

---------------------------------------------------------------------------
(* The exported functions                                                  *)

\* a plausible slip: no lookup, every call builds and stores a new object
buildMonthNoLookup(year, month) ==
    LET key == buildMonthKey(year, month)
        ref == Len(heap) + 1
    IN  [ref |-> ref, cache |-> Put(MONTH_CACHE, key, ref),
         heap |-> Append(heap, SnapshotOf(year, month, tz))]

\* a plausible slip: the days array declared at module level, so that a build
\* appends to what the build before it left there
buildMonthSharedDays(year, month) ==
    LET key == buildMonthKey(year, month)
    IN  IF key \in DOMAIN MONTH_CACHE
        THEN [ref |-> MONTH_CACHE[key], cache |-> MONTH_CACHE, heap |-> heap]
        ELSE LET fresh == SnapshotOf(year, month, tz)
                 before == IF heap = << >> THEN << >> ELSE heap[Len(heap)].days
                 ref == Len(heap) + 1
             IN  [ref |-> ref, cache |-> Put(MONTH_CACHE, key, ref),
                  heap |-> Append(heap, [fresh EXCEPT !.days = before \o fresh.days])]

\* buildMonth: the reference it returns, and the cache and heap it leaves
buildMonth(year, month) ==
    LET key == buildMonthKey(year, month)
    IN  IF key \in DOMAIN MONTH_CACHE
        THEN [ref |-> MONTH_CACHE[key], cache |-> MONTH_CACHE, heap |-> heap]
        ELSE LET created == SnapshotOf(year, month, tz)
                 ref == Len(heap) + 1
             IN  [ref |-> ref, cache |-> Put(MONTH_CACHE, key, ref),
                  heap |-> Append(heap, created)]

getMonthSnapshot(date) == buildMonth(date.y, date.m)

getAdjacentMonth(date, offset) == SetDate(SetMonth(date, date.m + offset), 1)

---------------------------------------------------------------------------
(* Bounds and input sets                                                   *)

\* the most distinct months built in one run
MaxMonths == 2

\* the most fresh starts of the process in one run
MaxRestarts == 1

CallDays == {1, 31}

\* the dates handed to getMonthSnapshot: real calendar dates of thirteen
\* months in a row, February of a common year to February of a leap year
CallDates ==
    {dt \in [y : Years, m : 0..11, d : CallDays] :
        /\ dt.d <= DaysIn(dt.y, dt.m)
        /\ dt.y * 12 + dt.m \in (2023 * 12 + 1)..(2024 * 12 + 1)}

\* the dates handed to it where the process is also started afresh
FreshDates ==
    {dt \in [y : Years, m : {0, 1, 2, 11}, d : CallDays] :
        /\ dt.d <= DaysIn(dt.y, dt.m)
        /\ dt.y * 12 + dt.m \in (2023 * 12 + 11)..(2024 * 12 + 2)}

AdjacentDates ==
    {dt \in [y : Years, m : 0..11, d : {1, 15, 28, 29, 30, 31}] : dt.d <= DaysIn(dt.y, dt.m)}

Offsets == {-13, -12, -2, -1, 0, 1, 2, 11, 12, 25}

EmptyMap == << >>

\* the most user events handled in one run
MaxClicks == 4

\* the wall-clock dates: the last day of a 31-day month before a shorter one,
\* and a day in the middle of a month
NowDates == {[y |-> 2024, m |-> 0, d |-> 31], [y |-> 2023, m |-> 11, d |-> 15]}

\* the days of the displayed month the user clicks
SelectDays == {2, 18, 31}

\* what the user types into the title field: nothing, blanks, a padded word
Titles == {<< >>, <<" ", " ">>, <<" ", "A", " ">>}

\* the changes of the form: (field, value)
FormInputs ==
    {<<"title", t>> : t \in Titles} \cup {<<"impactValue", "abc">>, <<"time", Time(6, 0)>>}

---------------------------------------------------------------------------
(* Direct use of the exported functions by any caller                      *)

\* the form as useState initialises it; title and description are strings,
\* held as sequences of characters
InitialForm ==
    [title |-> << >>, time |-> Time(8, 0), description |-> << >>,
     impactValue |-> "2.0", impactType |-> "reduction"]

\* the module is loaded and the component is not yet mounted
ModuleLoaded ==
    /\ tz \in TzOffsets
    /\ now \in NowDates
    /\ MONTH_CACHE = EmptyMap
    /\ heap = << >>
    /\ lastCall = NoCall
    /\ firstRef = EmptyMap
    /\ built = EmptyMap
    /\ lastAdjacent = NoAdjacent
    /\ restarts = 0
    /\ activeMonth = [y |-> 0, m |-> 0, d |-> 0]
    /\ snapshot = 0
    /\ selectedDay = [ref |-> 0, idx |-> 0]
    /\ customTasks = EmptyMap
    /\ taskStatus = EmptyMap
    /\ formState = InitialForm
    /\ pending = <<"unmounted">>
    /\ uuids = 0
    /\ clicks = 0
    /\ lastEvent = NoEvent

\* the same, and no generator made on its own
Init ==
    /\ ModuleLoaded
    /\ rngSeed = 0 /\ rngState = 0 /\ rngDraws = 0 /\ applied = NoApplied

\* the same, for the specifications that never mount the component
InitGen == Init /\ now = [y |-> 2024, m |-> 0, d |-> 31]

\* what a call of getMonthSnapshot(date) leaves behind, with the history kept of it
RecordCall(date) ==
    \E r \in {getMonthSnapshot(date)}, key \in {buildMonthKey(date.y, date.m)} :
        /\ MONTH_CACHE' = r.cache
        /\ heap' = r.heap
        /\ lastCall' = [date |-> date, key |-> key, ref |-> r.ref]
        /\ firstRef' = IF key \in DOMAIN firstRef THEN firstRef ELSE Put(firstRef, key, r.ref)
        /\ built' = IF key \in DOMAIN built THEN built
                    ELSE Put(built, key, [content |-> r.heap[r.ref], process |-> restarts])

\* some caller evaluates getMonthSnapshot(date)
Call(date) ==
    /\ Cardinality(DOMAIN built \cup {buildMonthKey(date.y, date.m)}) <= MaxMonths
    /\ RecordCall(date)
    /\ UNCHANGED <<rngVars, tz, now, restarts, lastAdjacent, viewVars>>

\* some caller evaluates getAdjacentMonth(date, offset)
Adjacent(date, offset) ==
    /\ lastAdjacent' = [date |-> date, offset |-> offset,
                        result |-> getAdjacentMonth(date, offset)]
    /\ UNCHANGED <<rngVars, tz, now, restarts, genVars, viewVars>>

\* the process ends and a new one starts: the module-level cache is empty again
Restart ==
    /\ restarts < MaxRestarts
    /\ restarts' = restarts + 1
    /\ MONTH_CACHE' = EmptyMap
    /\ heap' = << >>
    /\ lastCall' = NoCall
    /\ firstRef' = EmptyMap
    /\ UNCHANGED <<rngVars, tz, now, built, lastAdjacent, viewVars>>

---------------------------------------------------------------------------
(* EnergyCalendar: the view state, its handlers and its effects            *)

\* getDayKey: dateIso.split("T")[0], the UTC calendar date of the string
getDayKey(dateIso) == [y |-> dateIso.y, m |-> dateIso.m, d |-> dateIso.d]

\* key.slice(0, 7): the year and month of a day key
MonthPrefix(key) == <<key.y, key.m>>

\* the day object a reference points to
DayAt(ref) == heap[ref.ref].days[ref.idx]

\* String.prototype.trim on a sequence of characters
RECURSIVE Trim(_)
Trim(str) ==
    IF str = << >> THEN << >>
    ELSE IF Head(str) = " " THEN Trim(Tail(str))
    ELSE IF str[Len(str)] = " " THEN Trim(SubSeq(str, 1, Len(str) - 1))
    ELSE str

\* Number.parseFloat of the impact field: the number in fixed point, or not a number
ParseFloat(str) ==
    IF str = "2.0" THEN [finite |-> TRUE, value |-> 2 * Scale]
    ELSE [finite |-> FALSE, value |-> 0]

\* a.time.localeCompare(b.time) <= 0 for times "HH:MM"
TimeLeq(a, b) == a[1] < b[1] \/ (a[1] = b[1] /\ a[2] <= b[2])

RECURSIVE InsertByTime(_, _)
InsertByTime(sorted, t) ==
    IF sorted = << >> THEN <<t>>
    ELSE IF TimeLeq(sorted[Len(sorted)].time, t.time)
         THEN Append(sorted, t)
         ELSE Append(InsertByTime(SubSeq(sorted, 1, Len(sorted) - 1), t), sorted[Len(sorted)])

RECURSIVE SortByTime(_)
SortByTime(tasks) ==
    IF tasks = << >> THEN << >>
    ELSE InsertByTime(SortByTime(SubSeq(tasks, 1, Len(tasks) - 1)), tasks[Len(tasks)])

\* the memo combinedSelectedDayTasks: a new array, sorted by time
combinedSelectedDayTasks ==
    IF selectedDay.ref = 0 THEN << >>
    ELSE LET date == DayAt(selectedDay).date
             overrideTasks == IF date \in DOMAIN customTasks THEN customTasks[date] ELSE << >>
         IN  SortByTime(DayAt(selectedDay).tasks \o overrideTasks)

\* taskStatus[task.id] ?? task.status: the status the list shows for a task
DisplayedStatus(task) ==
    IF task.id \in DOMAIN taskStatus THEN taskStatus[task.id] ELSE task.status

\* the component mounts: the useState initialisers run
Mount ==
    /\ pending = <<"unmounted">>
    /\ activeMonth' = SetDate(now, 1)
    /\ RecordCall(activeMonth')
    /\ snapshot' = lastCall'.ref
    /\ selectedDay' = [ref |-> snapshot', idx |-> 1]
    /\ pending' = <<"snapshot", "select">>
    /\ UNCHANGED <<rngVars, tz, now, restarts, lastAdjacent, customTasks, taskStatus, formState,
                   uuids, clicks, lastEvent>>

\* useEffect(..., [activeMonth]): setSnapshot(getMonthSnapshot(activeMonth));
\* a snapshot that is another object renders again and queues the effect on it
SnapshotEffect ==
    /\ pending # << >> /\ Head(pending) = "snapshot"
    /\ RecordCall(activeMonth)
    /\ snapshot' = lastCall'.ref
    /\ pending' = IF snapshot' # snapshot /\ Tail(pending) = << >>
                  THEN <<"select">> ELSE Tail(pending)
    /\ UNCHANGED <<rngVars, tz, now, restarts, lastAdjacent, activeMonth, selectedDay, customTasks,
                   taskStatus, formState, uuids, clicks, lastEvent>>

\* a plausible slip: the previous selection kept whenever there is one
SelectedAfterSnapshotKeepsPrev(prev) ==
    IF prev.ref # 0 THEN prev ELSE [ref |-> snapshot, idx |-> 1]

\* the updater of setSelectedDay in useEffect(..., [snapshot])
SelectedAfterSnapshot(prev) ==
    LET shown == heap[snapshot]
        prevKey == getDayKey(DayAt(prev).date)
        hits == {i \in 1..Len(shown.days) : getDayKey(shown.days[i].date) = prevKey}
    IN  IF /\ prev.ref # 0
           /\ MonthPrefix(prevKey) = MonthPrefix(getDayKey(shown.monthStart))
           /\ hits # {}
        THEN [ref |-> snapshot, idx |-> CHOOSE i \in hits : \A j \in hits : i <= j]
        ELSE [ref |-> snapshot, idx |-> 1]

SelectEffect ==
    /\ pending # << >> /\ Head(pending) = "select"
    /\ selectedDay' = SelectedAfterSnapshot(selectedDay)
    /\ pending' = Tail(pending)
    /\ UNCHANGED <<rngVars, tz, now, restarts, lastAdjacent, genVars, activeMonth, snapshot,
                   customTasks, taskStatus, formState, uuids, clicks, lastEvent>>

\* a user event is handled when no effect is waiting
UserEvent(kind, arg) ==
    /\ pending = << >>
    /\ clicks < MaxClicks
    /\ clicks' = clicks + 1
    /\ lastEvent' = [kind |-> kind, arg |-> arg, snapshot |-> snapshot,
                     selectedDay |-> selectedDay]

\* Prev (offset -1) and Next (offset 1)
handleNavigate(offset) ==
    /\ UserEvent("navigate", offset)
    /\ activeMonth' = getAdjacentMonth(activeMonth, offset)
    /\ lastAdjacent' = [date |-> activeMonth, offset |-> offset,
                        result |-> getAdjacentMonth(activeMonth, offset)]
    /\ pending' = <<"snapshot">>
    /\ UNCHANGED <<rngVars, tz, now, restarts, genVars, snapshot, selectedDay, customTasks,
                   taskStatus, formState, uuids>>

\* Today: setActiveMonth(new Date())
Today ==
    /\ UserEvent("today", 0)
    /\ activeMonth' = now
    /\ pending' = <<"snapshot">>
    /\ UNCHANGED <<rngVars, tz, now, restarts, lastAdjacent, genVars, snapshot, selectedDay,
                   customTasks, taskStatus, formState, uuids>>

\* a click on the cell of day `idx` of the displayed snapshot
handleSelect(idx) ==
    /\ UserEvent("select", idx)
    /\ idx \in 1..Len(heap[snapshot].days)
    /\ selectedDay' = [ref |-> snapshot, idx |-> idx]
    /\ UNCHANGED <<rngVars, tz, now, restarts, lastAdjacent, genVars, activeMonth, snapshot,
                   customTasks, taskStatus, formState, pending, uuids>>

\* a plausible slip: the test made for "planned", which an entry not yet set fails
handleTaskToggleFromPlanned(taskId) ==
    /\ UserEvent("toggle", taskId)
    /\ taskStatus' = Put(taskStatus, taskId,
                         IF taskId \in DOMAIN taskStatus /\ taskStatus[taskId] = "planned"
                         THEN "completed" ELSE "planned")
    /\ UNCHANGED <<rngVars, tz, now, restarts, lastAdjacent, genVars, activeMonth, snapshot,
                   selectedDay, customTasks, formState, pending, uuids>>

\* a click on a task of the list
handleTaskToggle(taskId) ==
    /\ UserEvent("toggle", taskId)
    /\ taskStatus' = Put(taskStatus, taskId,
                         IF taskId \in DOMAIN taskStatus /\ taskStatus[taskId] = "completed"
                         THEN "planned" ELSE "completed")
    /\ UNCHANGED <<rngVars, tz, now, restarts, lastAdjacent, genVars, activeMonth, snapshot,
                   selectedDay, customTasks, formState, pending, uuids>>

\* the task the form describes, with a fresh id
NewTask ==
    LET trimmedDescription == Trim(formState.description)
        impactValue == ParseFloat(formState.impactValue)
    IN  [id |-> UuidId(uuids + 1),
         title |-> Trim(formState.title),
         time |-> formState.time,
         description |-> IF trimmedDescription = << >> THEN "Custom load adjustment"
                         ELSE trimmedDescription,
         impact |-> [type |-> formState.impactType,
                     value |-> IF impactValue.finite THEN ToFixed1(impactValue.value) ELSE 10],
         status |-> "planned"]

\* a plausible slip: the new task pushed onto the selected day's own task list
handleTaskSubmitIntoSnapshot ==
    /\ UserEvent("submit", 0)
    /\ IF selectedDay.ref = 0 \/ Trim(formState.title) = << >>
       THEN UNCHANGED <<genVars, customTasks, taskStatus, formState, uuids>>
       ELSE /\ heap' = [heap EXCEPT ![selectedDay.ref].days[selectedDay.idx].tasks =
                                        Append(@, NewTask)]
            /\ taskStatus' = Put(taskStatus, NewTask.id, "planned")
            /\ formState' = [formState EXCEPT !.title = << >>, !.description = << >>]
            /\ uuids' = uuids + 1
            /\ UNCHANGED <<MONTH_CACHE, lastCall, firstRef, built, customTasks>>
    /\ UNCHANGED <<rngVars, tz, now, restarts, lastAdjacent, activeMonth, snapshot, selectedDay, pending>>

\* a plausible slip: the title tested as typed, not trimmed
handleTaskSubmitUntrimmed ==
    /\ UserEvent("submit", 0)
    /\ IF selectedDay.ref = 0 \/ formState.title = << >>
       THEN UNCHANGED <<customTasks, taskStatus, formState, uuids>>
       ELSE LET date == DayAt(selectedDay).date
                current == IF date \in DOMAIN customTasks THEN customTasks[date] ELSE << >>
            IN  /\ customTasks' = Put(customTasks, date, Append(current, NewTask))
                /\ taskStatus' = Put(taskStatus, NewTask.id, "planned")
                /\ formState' = [formState EXCEPT !.title = << >>, !.description = << >>]
                /\ uuids' = uuids + 1
    /\ UNCHANGED <<rngVars, tz, now, restarts, lastAdjacent, genVars, activeMonth, snapshot,
                   selectedDay, pending>>

\* the form is submitted
handleTaskSubmit ==
    /\ UserEvent("submit", 0)
    /\ IF selectedDay.ref = 0 \/ Trim(formState.title) = << >>
       THEN UNCHANGED <<customTasks, taskStatus, formState, uuids>>
       ELSE LET date == DayAt(selectedDay).date
                current == IF date \in DOMAIN customTasks THEN customTasks[date] ELSE << >>
            IN  /\ customTasks' = Put(customTasks, date, Append(current, NewTask))
                /\ taskStatus' = Put(taskStatus, NewTask.id, "planned")
                /\ formState' = [formState EXCEPT !.title = << >>, !.description = << >>]
                /\ uuids' = uuids + 1
    /\ UNCHANGED <<rngVars, tz, now, restarts, lastAdjacent, genVars, activeMonth, snapshot,
                   selectedDay, pending>>

\* the user edits a field of the form
handleFormChange(key, value) ==
    /\ UserEvent("change", key)
    /\ formState' = [formState EXCEPT ![key] = value]
    /\ UNCHANGED <<rngVars, tz, now, restarts, lastAdjacent, genVars, activeMonth, snapshot,
                   selectedDay, customTasks, taskStatus, pending, uuids>>

Next ==
    \/ Mount
    \/ SnapshotEffect
    \/ SelectEffect
    \/ \E offset \in {-1, 1} : handleNavigate(offset)
    \/ Today
    \/ \E idx \in SelectDays : handleSelect(idx)
    \/ \E i \in 1..Len(combinedSelectedDayTasks) :
          handleTaskToggle(combinedSelectedDayTasks[i].id)
    \/ handleTaskSubmit
    \/ \E input \in FormInputs : handleFormChange(input[1], input[2])

Spec == Init /\ [][Next]_vars

---------------------------------------------------------------------------
(* The specifications of direct use                                        *)

NextGen == \E date \in CallDates : Call(date)

SpecGen == InitGen /\ [][NextGen]_vars

NextFresh ==
    \/ \E date \in FreshDates : Call(date)
    \/ Restart

SpecFresh == InitGen /\ [][NextFresh]_vars

NextAdjacent == \E date \in AdjacentDates, offset \in Offsets : Adjacent(date, offset)

SpecAdjacent == InitGen /\ [][NextAdjacent]_vars

---------------------------------------------------------------------------
(* createRng on its own, for any seed                                      *)

\* the most steps taken with one generator
MaxDraws == 8

\* the seeds: the ends of the integer range around the modulus, zero and its
\* neighbours, and the seeds of two months
Seeds ==
    {-2147483647, -2147483646, -2147483645, -2024, -1, 0, 1, 2, 16807,
     2147483645, 2147483646, 2147483647, MonthSeed(2024, 0), MonthSeed(2023, 11)}

\* const rng = createRng(seed)
InitRng ==
    /\ ModuleLoaded
    /\ now = [y |-> 2024, m |-> 0, d |-> 31]
    /\ rngSeed \in Seeds
    /\ rngState = createRng(rngSeed)
    /\ rngDraws = 0
    /\ applied = NoApplied

\* rng(): one step of the generator
Draw ==
    /\ rngDraws < MaxDraws
    /\ rngState' = LcgStep(rngState)
    /\ rngDraws' = rngDraws + 1
    /\ applied' = [fn |-> "rng", before |-> rngState, after |-> LcgStep(rngState)]
    /\ UNCHANGED <<rngSeed, tz, now, restarts, lastAdjacent, genVars, viewVars>>

NextRng == Draw

SpecRng == InitRng /\ [][NextRng]_vars

---------------------------------------------------------------------------
(* The functions that draw from the shared sequence, on their own          *)

\* the seeds of buildMonth for four months
DrawSeeds == {MonthSeed(2023, 1), MonthSeed(2023, 11), MonthSeed(2024, 0), MonthSeed(2024, 1)}

\* the months whose events are drawn: 28, 29, 30 and 31 days
EventMonths == {<<2023, 1>>, <<2024, 1>>, <<2024, 3>>, <<2024, 0>>}

InitDraws ==
    /\ ModuleLoaded
    /\ now = [y |-> 2024, m |-> 0, d |-> 31]
    /\ rngSeed \in DrawSeeds
    /\ rngState = createRng(rngSeed)
    /\ rngDraws = 0
    /\ applied = NoApplied

\* one pass of the loop of createDemandEvents, with the sequence where it stands
DrawDemandEvent(year, month, index) ==
    /\ rngDraws < MaxDraws
    /\ \E r \in {DemandEvent(year, month, DaysInMonth(year, month), tz, index, rngState)} :
          /\ rngState' = r.rng
          /\ applied' = [fn |-> "event", before |-> rngState, after |-> r.rng, out |-> r.event]
    /\ rngDraws' = rngDraws + 1
    /\ UNCHANGED <<rngSeed, tz, now, restarts, lastAdjacent, genVars, viewVars>>

\* the days whose tasks are derived: the preset days and others
TaskDays == {1, 2, 5, 12, 18, 24, 25, 31}

\* deriveTasks(day, rng), with the sequence where it stands
DrawTasks(day) ==
    /\ rngDraws < MaxDraws
    /\ \E r \in {deriveTasks(day, rngState)} :
          /\ rngState' = r.rng
          /\ applied' = [fn |-> "tasks", input |-> day, before |-> rngState, after |-> r.rng,
                         out |-> r.tasks]
    /\ rngDraws' = rngDraws + 1
    /\ UNCHANGED <<rngSeed, tz, now, restarts, lastAdjacent, genVars, viewVars>>

\* the stored fields generateInsights reads, in tenths, on both sides of its thresholds
InsightDays ==
    [usageKwh : {278, 300}, baselineKwh : {286}, solarGenerationKwh : {119, 120, 121},
     peakUsageKwh : {139, 140, 141}]

\* generateInsights(energyDay, rng), with the sequence where it stands
DrawInsights(day) ==
    /\ rngDraws < MaxDraws
    /\ \E r \in {generateInsights(day, rngState)} :
          /\ rngState' = r.rng
          /\ applied' = [fn |-> "insights", input |-> day, before |-> rngState,
                         after |-> r.rng, out |-> r.insights]
    /\ rngDraws' = rngDraws + 1
    /\ UNCHANGED <<rngSeed, tz, now, restarts, lastAdjacent, genVars, viewVars>>

NextDraws ==
    \/ Draw
    \/ \E ym \in EventMonths, index \in 0..2 : DrawDemandEvent(ym[1], ym[2], index)
    \/ \E day \in TaskDays : DrawTasks(day)
    \/ \E day \in InsightDays : DrawInsights(day)

SpecDraws == InitDraws /\ [][NextDraws]_vars

---------------------------------------------------------------------------
(* Properties                                                              *)

\* the snapshots the cache holds, with the year and month of their key
Cached == {[year |-> k[1], month |-> k[2] - 1, snapshot |-> heap[MONTH_CACHE[k]]] :
              k \in DOMAIN MONTH_CACHE}

RECURSIVE SumOf(_, _, _)
\* the sum of field(days[i]) for i in 1..hi
SumOf(field(_), days, hi) ==
    IF hi = 0 THEN 0 ELSE SumOf(field, days, hi - 1) + field(days[hi])

\* C1: every call of getMonthSnapshot returns the object the first call for
\* that month returned; the cache still maps every month to that first object
\* (nothing replaced, nothing removed), and no object was built but the one
\* per month (a hit builds nothing).
C1_SameObjectPerMonth ==
    /\ \A k \in DOMAIN firstRef : k \in DOMAIN MONTH_CACHE /\ MONTH_CACHE[k] = firstRef[k]
    /\ lastCall # NoCall => lastCall.ref = firstRef[lastCall.key]
    /\ Len(heap) = Cardinality(DOMAIN MONTH_CACHE)

\* a call that was answered from the cache: it returned an object older than
\* the newest one, for a date that is not the first of its month
C1_Witness ==
    /\ lastCall # NoCall
    /\ lastCall.ref < Len(heap)
    /\ lastCall.date.d # 1

\* C2: a step of the generator or of the view leaves every snapshot object
\* that exists as it is: its days with their task and insight lists, its demand
\* events and its totals; what the user adds goes to customTasks and taskStatus.
C2_SnapshotsNeverChange ==
    [][\A ref \in 1..Len(heap) : ref <= Len(heap') /\ heap'[ref] = heap[ref]]_vars

\* a custom task was submitted, a task was toggled to completed and a second
\* month was built
C2_Witness ==
    /\ customTasks # EmptyMap
    /\ \E id \in DOMAIN taskStatus : taskStatus[id] = "completed"
    /\ Len(heap) >= 2

C4_FirstOfOffsetMonth ==
    lastAdjacent # NoAdjacent =>
        LET index == lastAdjacent.date.y * 12 + lastAdjacent.date.m + lastAdjacent.offset
        IN  lastAdjacent.result = [y |-> index \div 12, m |-> index % 12, d |-> 1]

\* C5: the days of a snapshot are the calendar days of its month, one each,
\* in ascending order from day 1.
C5_OneDayPerCalendarDay ==
    \A c \in Cached :
        /\ Len(c.snapshot.days) = DaysIn(c.year, c.month)
        /\ Len(c.snapshot.days) \in 28..31
        /\ \A i \in 1..Len(c.snapshot.days) :
              ParseISO(c.snapshot.days[i].date, tz) = [y |-> c.year, m |-> c.month, d |-> i]

\* February of a leap year and of a common year, and a month of 30 days
C5_Witness ==
    /\ \E c \in Cached : c.month = 1 /\ Len(c.snapshot.days) = 29
    /\ \E c \in Cached : Len(c.snapshot.days) \in {28, 30}

\* C6: a snapshot has 2 or 3 demand events, in non-decreasing order of date.
C6_EventsSorted ==
    \A c \in Cached :
        LET ev == c.snapshot.demandEvents
        IN  /\ Len(ev) \in {2, 3}
            /\ \A i, j \in 1..Len(ev) : i < j => GetTime(ev[i].date) <= GetTime(ev[j].date)

\* a snapshot whose events were drawn in another order than they are listed
C6_Witness ==
    \E c \in Cached :
        \E i, j \in 1..Len(c.snapshot.demandEvents) :
            i < j /\ c.snapshot.demandEvents[i].id[3] > c.snapshot.demandEvents[j].id[3]

\* C7: day 18 carries exactly the two preset tasks, day 2 exactly the one,
\* with ids `{day}-preset-{index}` and status planned.
C7_PresetTasks ==
    \A c \in Cached :
        LET t18 == c.snapshot.days[18].tasks
            t2  == c.snapshot.days[2].tasks
        IN  /\ Len(t18) = 2
            /\ t18[1].title = "Load tuning workshop"
            /\ t18[2].title = "Battery discharge planning"
            /\ Len(t2) = 1
            /\ t2[1].title = "Optimize thermostat schedule"
            /\ t18[1].id = <<"preset", 18, 0>> /\ t18[2].id = <<"preset", 18, 1>>
            /\ t2[1].id = <<"preset", 2, 0>>
            /\ \A t \in {t18[1], t18[2], t2[1]} : t.status = "planned"

\* two different months built
C7_Witness == Cardinality(Cached) >= 2

\* C8 as stated: on the stored fields, off-peak = max(usage - peak, 0).
C8_OffPeakExact ==
    \A c \in Cached : \A i \in 1..Len(c.snapshot.days) :
        LET d == c.snapshot.days[i]
        IN  d.offPeakUsageKwh = Max(d.usageKwh - d.peakUsageKwh, 0)

\* C8 amended: off-peak is rounded on its own from the unrounded difference,
\* so on the stored fields it is never negative and is within one tenth of
\* usage - peak.
C8_OffPeakWithinOneTenth ==
    \A c \in Cached : \A i \in 1..Len(c.snapshot.days) :
        LET d == c.snapshot.days[i]
        IN  /\ d.offPeakUsageKwh >= 0
            /\ Abs(d.offPeakUsageKwh - (d.usageKwh - d.peakUsageKwh)) <= 1

\* a stored day whose off-peak is one tenth off the difference of the stored fields
C8_Witness ==
    \E c \in Cached : \E i \in 1..Len(c.snapshot.days) :
        LET d == c.snapshot.days[i]
        IN  Abs(d.offPeakUsageKwh - (d.usageKwh - d.peakUsageKwh)) = 1

\* C9: there are ceil(daysInMonth / 7) weekly averages; entry i is the mean of
\* the stored usage of days 7i+1 .. min(7i+7, daysInMonth) to the nearest tenth.
C9_WeeklyAverages ==
    \A c \in Cached :
        LET days == c.snapshot.days
            w == c.snapshot.weeklyAverages
            usageOf(d) == d.usageKwh
        IN  /\ Len(w) = (Len(days) + 6) \div 7
            /\ \A i \in 1..Len(w) :
                  LET lo == 7 * (i - 1) + 1
                      hi == IF 7 * i < Len(days) THEN 7 * i ELSE Len(days)
                      n == hi - lo + 1
                      sum == SumOf(usageOf, days, hi) - SumOf(usageOf, days, lo - 1)
                  IN  2 * Abs(w[i] * n - sum) <= n

\* a month whose last week is shorter than seven days
C9_Witness ==
    \E c \in Cached : Len(c.snapshot.days) % 7 # 0 /\ Len(c.snapshot.weeklyAverages) = 5

\* C10: each total is the sum of the corresponding stored daily field.
C10_TotalsAreSumsOfStored ==
    \A c \in Cached :
        LET days == c.snapshot.days
            t == c.snapshot.totals
            usageOf(d) == d.usageKwh
            solarOf(d) == d.solarGenerationKwh
            carbonOf(d) == d.carbonKg
            costOf(d) == d.costUsd
            baselineOf(d) == d.baselineKwh
        IN  /\ t.usageKwh = SumOf(usageOf, days, Len(days))
            /\ t.solarGenerationKwh = SumOf(solarOf, days, Len(days))
            /\ t.carbonKg = SumOf(carbonOf, days, Len(days))
            /\ t.costUsd = SumOf(costOf, days, Len(days))
            /\ t.baselineKwh = SumOf(baselineOf, days, Len(days))

\* two months built, of different length
C10_Witness ==
    \E c1, c2 \in Cached : Len(c1.snapshot.days) # Len(c2.snapshot.days)

\* a step that handles the user event `kind`
IsEvent(kind) == clicks' = clicks + 1 /\ lastEvent'.kind = kind

\* C11: a submit whose title is empty or blank leaves customTasks, taskStatus
\* and the form as they were, and adds no task to any day of any snapshot.
C11_BlankTitleRejected ==
    [][IsEvent("submit") /\ (\A i \in 1..Len(formState.title) : formState.title[i] = " ")
          => UNCHANGED <<customTasks, taskStatus, formState, heap>>]_vars

\* a form whose title is blanks was submitted
C11_Witness ==
    /\ lastEvent.kind = "submit"
    /\ formState.title = <<" ", " ">>

\* C12: for any integer seed, the state of the generator after createRng and
\* after every step lies in 1 .. modulus - 1, so the value (state - 1) /
\* (modulus - 1) it returns lies in [0, 1).
C12_StateInRange ==
    rngState \in 1..(Modulus - 1)

\* the state of the generator n steps after `state`
RECURSIVE Advance(_, _)
Advance(state, n) == IF n = 0 THEN state ELSE Advance(LcgStep(state), n - 1)

\* C13 as stated: every event takes the same number of draws, the two priority
\* checks one each: day, two for the priority, window start.
C13_SameDrawsWhateverPriority ==
    applied.fn = "event" => applied.after = Advance(applied.before, 4)

\* C13 amended: the second priority check draws only when the first fails; a
\* high event takes three draws, a medium or low event four.
C13_DrawsByPriority ==
    applied.fn = "event" =>
        applied.after = Advance(applied.before, IF applied.out.priority = "high" THEN 3 ELSE 4)

\* a high event was drawn
C13_Witness ==
    applied.fn = "event" /\ applied.out.priority = "high"

\* C14: on a preset day deriveTasks draws nothing and returns the preset's
\* tasks; on another day it draws once, and only if that value exceeds 0.8 it
\* draws again and returns one ad-hoc task `{day}-adhoc`, planned; otherwise
\* it returns no task.
C14_TaskDraws ==
    applied.fn = "tasks" =>
        LET day == applied.input
            tasks == applied.out
            first == LcgStep(applied.before)
        IN  IF day \in {2, 5, 12, 18, 24}
            THEN /\ applied.after = applied.before
                 /\ Len(tasks) = (IF day = 18 THEN 2 ELSE 1)
                 /\ \A i \in 1..Len(tasks) :
                       tasks[i].id = <<"preset", day, i - 1>> /\ tasks[i].status = "planned"
            ELSE IF Exceeds(first, 80)
            THEN /\ applied.after = Advance(applied.before, 2)
                 /\ Len(tasks) = 1
                 /\ tasks[1].id = <<"adhoc", day, 0>>
                 /\ tasks[1].status = "planned"
            ELSE /\ applied.after = first
                 /\ tasks = << >>

\* an ad-hoc task was derived
C14_Witness ==
    /\ applied.fn = "tasks"
    /\ Len(applied.out) = 1
    /\ applied.out[1].id[1] = "adhoc"

\* the labels of a list of insights
Labels(insights) == [i \in 1..Len(insights) |-> insights[i].label]

\* C15: the insights are HVAC runtime, then Solar harvest exactly when
\* solarGenerationKwh > 12 and the value drawn exceeds 0.3, then Peak window
\* exactly when peakUsageKwh > 14; a value is drawn only when
\* solarGenerationKwh > 12.
C15_InsightsInOrder ==
    applied.fn = "insights" =>
        LET day == applied.input
            first == LcgStep(applied.before)
            solar == IF day.solarGenerationKwh > 120 /\ Exceeds(first, 30)
                     THEN <<"Solar harvest">> ELSE << >>
            peak == IF day.peakUsageKwh > 140 THEN <<"Peak window">> ELSE << >>
        IN  /\ Labels(applied.out) = <<"HVAC runtime">> \o solar \o peak
            /\ applied.after = (IF day.solarGenerationKwh > 120 THEN first ELSE applied.before)

\* a day with all three insights
C15_Witness ==
    /\ applied.fn = "insights"
    /\ Len(applied.out) = 3

\* the status the list shows for `task` under the overlay `overlay`
StatusIn(overlay, task) == IF task.id \in DOMAIN overlay THEN overlay[task.id] ELSE task.status

\* C16: a toggle changes the status shown for the toggled task only: the
\* status shown for every generated task of any other day, of this month or of
\* another, is what it was (the ids that key the overlay are unique over all
\* days of all snapshots).
C16_ToggleTouchesOneTask ==
    [][IsEvent("toggle") =>
          \A ref \in 1..Len(heap) : \A idx \in 1..Len(heap[ref].days) :
              (ref # selectedDay.ref \/ idx # selectedDay.idx) =>
                  \A k \in 1..Len(heap[ref].days[idx].tasks) :
                      StatusIn(taskStatus', heap[ref].days[idx].tasks[k])
                          = StatusIn(taskStatus, heap[ref].days[idx].tasks[k])]_vars

\* the index of a month on the line of months
MonthIndex(date) == date.y * 12 + date.m

\* C17: whatever Prev, Next and Today clicks came before, Next moves the month
\* forward by exactly one and Prev moves it back by exactly one.
C17_NavigateMovesOneMonth ==
    [][IsEvent("navigate") =>
          MonthIndex(activeMonth') = MonthIndex(activeMonth) + lastEvent'.arg]_vars

\* C18: when the effects have run, the selected day is a day of the displayed
\* snapshot; after a navigation it is the day selected before if the displayed
\* month is the same, and the first day of the new month if it is another.
C18_SelectedDayIsDisplayed ==
    pending = << >> =>
        /\ selectedDay.ref = snapshot
        /\ selectedDay.idx \in 1..Len(heap[snapshot].days)
        /\ lastEvent.kind \in {"navigate", "today"} =>
              IF snapshot = lastEvent.snapshot
              THEN selectedDay = lastEvent.selectedDay
              ELSE selectedDay.idx = 1

\* the view settled on another month after a navigation that found a day
\* other than the first selected
C18_Witness ==
    /\ pending = << >>
    /\ lastEvent.kind = "navigate"
    /\ lastEvent.selectedDay.idx > 1
    /\ snapshot # lastEvent.snapshot

Flip(status) == IF status = "completed" THEN "planned" ELSE "completed"

\* C19: handleTaskToggle(id) flips the status shown for the task between
\* planned and completed, a task without an overlay entry showing planned, and
\* leaves the overlay entries of all other ids as they were.
C19_ToggleFlips ==
    [][IsEvent("toggle") =>
          \E i \in 1..Len(combinedSelectedDayTasks) :
              LET task == combinedSelectedDayTasks[i]
              IN  /\ task.id = lastEvent'.arg
                  /\ task.id \notin DOMAIN taskStatus => StatusIn(taskStatus, task) = "planned"
                  /\ StatusIn(taskStatus, task) \in {"planned", "completed"}
                  /\ StatusIn(taskStatus', task) = Flip(StatusIn(taskStatus, task))
                  /\ DOMAIN taskStatus' = DOMAIN taskStatus \cup {task.id}
                  /\ \A id \in DOMAIN taskStatus \ {task.id} : taskStatus'[id] = taskStatus[id]]_vars

\* a generated task was toggled to completed and back to planned
C19_Witness ==
    /\ lastEvent.kind = "toggle"
    /\ lastEvent.arg[1] # "uuid"
    /\ taskStatus[lastEvent.arg] = "planned"

=============================================================================
